---- MODULE Spec2Model ----
(***************************************************************************)
(* OpsPilot Kitchens: the layout solver (solver.js), its zone algebra, the *)
(* catalog (catalog.js) and the budget engine (budget.js).                 *)
(*                                                                         *)
(* Lengths are millimetres.  Obstacle widths are even, so that the code's  *)
(* width / 2 is an integer and is written \div 2 here.  Money is counted   *)
(* in thousandths of a euro (1 EUR = 1000), so that metres * rate is an    *)
(* integer and Math.round(x * 100) / 100 is rounding to a multiple of 10.  *)
(***************************************************************************)
EXTENDS Integers, Sequences, FiniteSets, TLC

VARIABLES
    zones,          \* zone algebra: the argument of mergeZones / findFreeSegments
    merged,         \* zone algebra: mergeZones(zones) once pc = "merged"
    free,           \* zone algebra: findFreeSegments(WallLen, zones) once pc = "freed"
    state,          \* solver: the room description handed to generateLayout
    placed,         \* solver: generateLayout's accumulating `placed` array
    errors,         \* solver: generateLayout's accumulating `errors` array
    pc,             \* the step the function under study has reached
    placedModules,  \* budget: the argument of calculateBudget
    budget,         \* budget: calculateBudget's result once pc = "priced"
    catalog,        \* catalog.js: the CATALOG array as the calls so far left it
    roomState,      \* state.js: `let roomState`
    uiState,        \* state.js: `let uiState`
    obstacleCounter,\* state.js: `let obstacleCounter`
    gen,            \* panel.js: where the pending handleGenerate call stands
    delivered       \* state.js: the snapshots the last operation's notify() calls
                    \* handed to the subscribers, in order

vars == <<zones, merged, free, state, placed, errors, pc, placedModules, budget,
          catalog, roomState, uiState, obstacleCounter, gen, delivered>>

zoneVars == <<zones, merged, free>>
solverVars == <<state, placed, errors, catalog>>
budgetVars == <<placedModules, budget>>
storeVars == <<roomState, uiState, obstacleCounter, gen, delivered>>

Max(a, b) == IF a >= b THEN a ELSE b

SeqToSet(s) == { s[i] : i \in 1..Len(s) }

RECURSIVE SelectSeq2(_, _)
\* Array.prototype.filter with the predicate given as the set of kept values.
SelectSeq2(s, keep) ==
    IF s = <<>> THEN <<>>
    ELSE IF Head(s) \in keep THEN <<Head(s)>> \o SelectSeq2(Tail(s), keep)
    ELSE SelectSeq2(Tail(s), keep)

(***************************************************************************)
(* Zone algebra (solver.js helpers)                                        *)
(***************************************************************************)

RECURSIVE InsertByStart(_, _)
\* One step of a stable ascending sort on .start: z goes after every element
\* whose start is <= its own.
InsertByStart(z, sorted) ==
    IF sorted = <<>> THEN <<z>>
    ELSE IF Head(sorted).start <= z.start
         THEN <<Head(sorted)>> \o InsertByStart(z, Tail(sorted))
         ELSE <<z>> \o sorted

RECURSIVE SortByStart(_)
\* zs.sort((a, b) => a.start - b.start): Array.prototype.sort is stable.
SortByStart(zs) ==
    IF zs = <<>> THEN <<>>
    ELSE InsertByStart(zs[Len(zs)], SortByStart(SubSeq(zs, 1, Len(zs) - 1)))

\* Mutant of MergesIntoLast: compares with the previous input zone, not with
\* the accumulator.
MergesIntoLast_prevInput(sorted, i, last) == sorted[i].start <= sorted[i - 1].end

\* Mutant of MergesIntoLast: touching zones are not merged.
MergesIntoLast_strict(sorted, i, last) == sorted[i].start < last.end

\* if (sorted[i].start <= last.end)
MergesIntoLast(sorted, i, last) == sorted[i].start <= last.end

RECURSIVE MergeLoop(_, _, _)
\* for (let i = 1; i < sorted.length; i++) { ... } with i counted from 1.
MergeLoop(sorted, i, acc) ==
    IF i > Len(sorted) THEN acc
    ELSE LET last == acc[Len(acc)] IN
         IF MergesIntoLast(sorted, i, last)
         THEN MergeLoop(sorted, i + 1,
                        [acc EXCEPT ![Len(acc)].end = Max(last.end, sorted[i].end)])
         ELSE MergeLoop(sorted, i + 1, Append(acc, sorted[i]))

mergeZones(zs) ==
    IF Len(zs) = 0 THEN <<>>
    ELSE LET sorted == SortByStart(zs) IN MergeLoop(sorted, 2, <<sorted[1]>>)

RECURSIVE FreeLoop(_, _, _, _)
\* for (const zone of merged) { ... }: the result is the pair (free, cursor).
FreeLoop(mz, i, cursor, acc) ==
    IF i > Len(mz) THEN [free |-> acc, cursor |-> cursor]
    ELSE LET zone == mz[i] IN
         FreeLoop(mz, i + 1, Max(cursor, zone.end),
                  IF cursor < zone.start
                  THEN Append(acc, [start |-> cursor, end |-> zone.start])
                  ELSE acc)

\* Mutant of findFreeSegments: the trailing segment is never emitted.
findFreeSegments_noTail(wallLength, occupiedZones) ==
    FreeLoop(mergeZones(occupiedZones), 1, 0, <<>>).free

findFreeSegments(wallLength, occupiedZones) ==
    LET r == FreeLoop(mergeZones(occupiedZones), 1, 0, <<>>) IN
    IF r.cursor < wallLength
    THEN Append(r.free, [start |-> r.cursor, end |-> wallLength])
    ELSE r.free

\* Mutant of isConflict: the door/column check is missing.
isConflict_never(start, end, blockedZones) == FALSE

\* Mutant of isConflict: an interval that touches a zone conflicts with it.
isConflict_touching(start, end, blockedZones) ==
    \E i \in 1..Len(blockedZones) :
        start <= blockedZones[i].end /\ end >= blockedZones[i].start

\* blockedZones.some(z => start < z.end && end > z.start)
isConflict(start, end, blockedZones) ==
    \E i \in 1..Len(blockedZones) :
        start < blockedZones[i].end /\ end > blockedZones[i].start

RECURSIVE BlockedLoop_withWindows(_)
\* Mutant of BlockedLoop: a window blocks the floor as a door does.
BlockedLoop_withWindows(obstacles) ==
    IF obstacles = <<>> THEN <<>>
    ELSE LET obs == Head(obstacles) IN
         (IF obs.type = "door" \/ obs.type = "column" \/ obs.type = "window"
          THEN <<[start |-> obs.position - obs.width \div 2,
                  end |-> obs.position + obs.width \div 2]>>
          ELSE <<>>) \o BlockedLoop_withWindows(Tail(obstacles))

RECURSIVE BlockedLoop(_)
\* for (const obs of obstacles) { if door or column: zones.push(...) }
BlockedLoop(obstacles) ==
    IF obstacles = <<>> THEN <<>>
    ELSE LET obs == Head(obstacles) IN
         (IF obs.type = "door" \/ obs.type = "column"
          THEN <<[start |-> obs.position - obs.width \div 2,
                  end |-> obs.position + obs.width \div 2]>>
          ELSE <<>>) \o BlockedLoop(Tail(obstacles))

buildBlockedZones(obstacles) == SortByStart(BlockedLoop(obstacles))

(***************************************************************************)
(* Inputs of the zone algebra                                              *)
(***************************************************************************)

MaxZones == 3

MaxCoord == 4

WallLen == 3

ZoneCoords == (0 - 1)..MaxCoord

\* Zones are intervals [start, end): start <= end.
ZoneValues == { [start |-> s, end |-> e] : s \in ZoneCoords, e \in ZoneCoords } \
              { z \in [start : ZoneCoords, end : ZoneCoords] : z.start > z.end }

ZoneLists == UNION { [1..n -> ZoneValues] : n \in 0..MaxZones }

ZoneInit ==
    /\ zones \in ZoneLists
    /\ merged = <<>>
    /\ free = <<>>

\* merged = mergeZones(zones)
CallMergeZones ==
    /\ pc = "zones"
    /\ merged' = mergeZones(zones)
    /\ pc' = "merged"
    /\ UNCHANGED <<zones, free>>

\* free = findFreeSegments(WallLen, zones)
CallFindFreeSegments ==
    /\ pc = "merged"
    /\ free' = findFreeSegments(WallLen, zones)
    /\ pc' = "freed"
    /\ UNCHANGED <<zones, merged>>

ZoneIdle ==
    /\ zones = <<>>
    /\ merged = <<>>
    /\ free = <<>>

(***************************************************************************)
(* Catalog (catalog.js)                                                    *)
(***************************************************************************)

Item(ref, label, type, width, depth, price, anchor, corner) ==
    [ref |-> ref, label |-> label, type |-> type, width |-> width,
     depth |-> depth, price |-> price, anchor |-> anchor, corner |-> corner]

\* An entry without `anchor` has anchor "none"; one without `corner`, FALSE.
CATALOG ==
    << Item("B15", "Bajo 15", "base", 150, 600, 25, "none", FALSE),
       Item("B30", "Bajo 30", "base", 300, 600, 35, "none", FALSE),
       Item("B45", "Bajo 45", "base", 450, 600, 42, "none", FALSE),
       Item("B60", "Bajo 60", "base", 600, 600, 50, "none", FALSE),
       Item("B90", "Bajo 90", "base", 900, 600, 72, "none", FALSE),
       Item("B120", "Bajo 120", "base", 1200, 600, 95, "none", FALSE),
       Item("SINK60", "Fregadero", "base", 600, 600, 65, "water_point", FALSE),
       Item("OVEN60", "Horno", "base", 600, 600, 60, "smoke_outlet", FALSE),
       Item("CORNER90", "Rincon L", "base", 930, 930, 110, "none", TRUE),
       Item("A15", "Alto 15", "wall", 150, 350, 22, "none", FALSE),
       Item("A30", "Alto 30", "wall", 300, 350, 30, "none", FALSE),
       Item("A45", "Alto 45", "wall", 450, 350, 38, "none", FALSE),
       Item("A60", "Alto 60", "wall", 600, 350, 45, "none", FALSE),
       Item("A90", "Alto 90", "wall", 900, 350, 65, "none", FALSE),
       Item("A120", "Alto 120", "wall", 1200, 350, 85, "none", FALSE),
       Item("T60", "Columna 60", "tall", 600, 600, 120, "none", FALSE) >>

\* CATALOG.find(c => c.ref === ref)
CatalogFind(ref) ==
    LET hits == { i \in 1..Len(CATALOG) : CATALOG[i].ref = ref } IN
    CATALOG[CHOOSE i \in hits : \A j \in hits : i <= j]

RECURSIVE InsertByWidthDesc(_, _)
\* One step of a stable descending sort on .width.
InsertByWidthDesc(m, sorted) ==
    IF sorted = <<>> THEN <<m>>
    ELSE IF Head(sorted).width >= m.width
         THEN <<Head(sorted)>> \o InsertByWidthDesc(m, Tail(sorted))
         ELSE <<m>> \o sorted

RECURSIVE SortByWidthDesc(_)
\* ms.sort((a, b) => b.width - a.width)
SortByWidthDesc(ms) ==
    IF ms = <<>> THEN <<>>
    ELSE InsertByWidthDesc(ms[Len(ms)], SortByWidthDesc(SubSeq(ms, 1, Len(ms) - 1)))

\* Mutant of CatalogAfterSort: .sort() is called on CATALOG itself.
CatalogAfterSort_inPlace(cat) == SortByWidthDesc(cat)

\* The CATALOG array after getBaseModulesByWidth() or getWallModulesByWidth():
\* .sort() reorders its receiver in place, and the receiver is the new array
\* that .filter() returned.
CatalogAfterSort(cat) == cat

\* Mutant of getBaseModulesByWidth: the filtered list is left in catalog order.
getBaseModulesByWidth_unsorted ==
    SelectSeq2(CATALOG,
        { c \in SeqToSet(CATALOG) : c.type = "base" /\ c.anchor = "none" /\ ~c.corner })

getBaseModulesByWidth ==
    SortByWidthDesc(SelectSeq2(CATALOG,
        { c \in SeqToSet(CATALOG) : c.type = "base" /\ c.anchor = "none" /\ ~c.corner }))

getWallModulesByWidth ==
    SortByWidthDesc(SelectSeq2(CATALOG, { c \in SeqToSet(CATALOG) : c.type = "wall" }))

\* mods.find(m => m.width <= limit): the index of the first hit, 0 for undefined.
FindFitting(mods, limit) ==
    LET hits == { i \in 1..Len(mods) : mods[i].width <= limit } IN
    IF hits = {} THEN 0 ELSE CHOOSE i \in hits : \A j \in hits : i <= j

\* mods.find(m => m.width === width): the index of the first hit, 0 for undefined.
FindExact(mods, width) ==
    LET hits == { i \in 1..Len(mods) : mods[i].width = width } IN
    IF hits = {} THEN 0 ELSE CHOOSE i \in hits : \A j \in hits : i <= j

(***************************************************************************)
(* generateLayout (solver.js)                                              *)
(***************************************************************************)

\* The object literals pushed onto `placed`.
Module(item, type, wallId, position, anchor, corner) ==
    [ref |-> item.ref, type |-> type, wallId |-> wallId, position |-> position,
     width |-> item.width, label |-> item.label, price |-> item.price,
     anchor |-> anchor, corner |-> corner]

\* The template strings pushed onto `errors`: which template, and the two
\* values it interpolates.
Diagnostic(kind, wall, obs) ==
    [kind |-> kind, wallId |-> wall.id, position |-> obs.position]

\* Mutant of AnchorFits: the wall-bounds check is missing.
AnchorFits_unchecked(start, end, wallLen) == TRUE

\* The negation of `sinkStart < 0 || sinkEnd > wallLen`.
AnchorFits(start, end, wallLen) == ~(start < 0 \/ end > wallLen)

\* The body of `for (const wp of waterPoints)` / `for (const sp of smokePoints)`.
PlaceAnchor(acc, wall, blocked, obs, ref, errBlocked, errFit) ==
    LET item == CatalogFind(ref)
        start == obs.position - item.width \div 2
        end == start + item.width
    IN  IF isConflict(start, end, blocked)
        THEN [acc EXCEPT !.errors = Append(@, Diagnostic(errBlocked, wall, obs))]
        ELSE IF ~AnchorFits(start, end, wall.length)
        THEN [acc EXCEPT !.errors = Append(@, Diagnostic(errFit, wall, obs))]
        ELSE [acc EXCEPT !.placed =
                  Append(@, Module(item, "base", wall.id, start, obs.type, FALSE))]

RECURSIVE AnchorLoop_abortOnError(_, _, _, _, _, _, _)
\* Mutant of AnchorLoop: `break` where the code has `continue`.
AnchorLoop_abortOnError(acc, wall, blocked, points, ref, errBlocked, errFit) ==
    IF points = <<>> THEN acc
    ELSE LET next == PlaceAnchor(acc, wall, blocked, Head(points), ref, errBlocked, errFit)
         IN  IF Len(next.errors) > Len(acc.errors) THEN next
             ELSE AnchorLoop_abortOnError(next, wall, blocked, Tail(points),
                                          ref, errBlocked, errFit)

RECURSIVE AnchorLoop(_, _, _, _, _, _, _)
\* for (const wp of waterPoints) { ... continue ... }
AnchorLoop(acc, wall, blocked, points, ref, errBlocked, errFit) ==
    IF points = <<>> THEN acc
    ELSE AnchorLoop(PlaceAnchor(acc, wall, blocked, Head(points), ref, errBlocked, errFit),
                    wall, blocked, Tail(points), ref, errBlocked, errFit)

\* obstacles.filter(o => o.type === type)
ObstaclesOfType(obstacles, type) ==
    SelectSeq2(obstacles, { o \in SeqToSet(obstacles) : o.type = type })

\* Mutant of AnchorsOnWall: the ovens are placed before the sinks.
AnchorsOnWall_ovensFirst(acc, wall) ==
    LET blocked == buildBlockedZones(wall.obstacles)
        ovens == AnchorLoop(acc, wall, blocked,
                            ObstaclesOfType(wall.obstacles, "smoke_outlet"),
                            "OVEN60", "smoke_blocked", "oven_no_fit")
    IN  AnchorLoop(ovens, wall, blocked,
                   ObstaclesOfType(wall.obstacles, "water_point"),
                   "SINK60", "water_blocked", "sink_no_fit")

\* Steps 1 and 2 for one wall: sinks at the water points, then ovens at the
\* smoke outlets.
AnchorsOnWall(acc, wall) ==
    LET blocked == buildBlockedZones(wall.obstacles)
        sinks == AnchorLoop(acc, wall, blocked,
                            ObstaclesOfType(wall.obstacles, "water_point"),
                            "SINK60", "water_blocked", "sink_no_fit")
    IN  AnchorLoop(sinks, wall, blocked,
                   ObstaclesOfType(wall.obstacles, "smoke_outlet"),
                   "OVEN60", "smoke_blocked", "oven_no_fit")

RECURSIVE AnchorWalls(_, _)
\* for (const wall of state.walls) { steps 1 and 2 }
AnchorWalls(acc, walls) ==
    IF walls = <<>> THEN acc
    ELSE AnchorWalls(AnchorsOnWall(acc, Head(walls)), Tail(walls))

\* Mutant of HasCorner: only the L-shaped room has a corner.
HasCorner_onlyL(shape) == shape = "L-SHAPED"

\* state.shape === 'L-SHAPED' || state.shape === 'U-SHAPED'
HasCorner(shape) == shape = "L-SHAPED" \/ shape = "U-SHAPED"

\* Step 3: the corner module.
CornerStep(pl, shape) ==
    IF HasCorner(shape)
    THEN Append(pl, Module(CatalogFind("CORNER90"), "base", "corner-AB", 0, "none", TRUE))
    ELSE pl

\* placed.filter(m => m.wallId === wallId && m.type === type)
ModulesOn(pl, wallId, type) ==
    SelectSeq2(pl, { m \in SeqToSet(pl) : m.wallId = wallId /\ m.type = type })

\* .map(m => ({ start: m.position, end: m.position + m.width }))
ModuleZones(ms) ==
    [i \in 1..Len(ms) |-> [start |-> ms[i].position, end |-> ms[i].position + ms[i].width]]

\* Mutant of CornerOccupation: the corner's footprint is not reserved.
CornerOccupation_none(shape, wallId) == <<>>

\* `// Add corner occupation`
CornerOccupation(shape, wallId) ==
    IF HasCorner(shape) /\ (wallId = "wall-A" \/ wallId = "wall-B")
    THEN <<[start |-> 0, end |-> CatalogFind("CORNER90").width]>>
    ELSE <<>>

\* Mutant of OccupiedByModules: the modules already placed are not reserved.
OccupiedByModules_none(pl, shape, wallId) == CornerOccupation(shape, wallId)

OccupiedByModules(pl, shape, wallId) ==
    ModuleZones(ModulesOn(pl, wallId, "base")) \o CornerOccupation(shape, wallId)

RECURSIVE FillSegment(_, _, _, _)
\* while (cursor < seg.end) { ... }
FillSegment(pl, wallId, cursor, segEnd) ==
    IF ~(cursor < segEnd) THEN pl
    ELSE LET baseMods == getBaseModulesByWidth
             fit == FindFitting(baseMods, segEnd - cursor)
         IN  IF fit = 0 THEN pl
             ELSE FillSegment(
                      Append(pl, Module(baseMods[fit], "base", wallId, cursor, "none", FALSE)),
                      wallId, cursor + baseMods[fit].width, segEnd)

RECURSIVE FillSegments(_, _, _)
\* for (const seg of freeSegments)
FillSegments(pl, wallId, segs) ==
    IF segs = <<>> THEN pl
    ELSE FillSegments(FillSegment(pl, wallId, Head(segs).start, Head(segs).end),
                      wallId, Tail(segs))

\* Step 4 for one wall.
FillWall(pl, shape, wall) ==
    LET allOccupied == SortByStart(buildBlockedZones(wall.obstacles)
                                   \o OccupiedByModules(pl, shape, wall.id))
    IN  FillSegments(pl, wall.id, findFreeSegments(wall.length, allOccupied))

RECURSIVE FillWalls(_, _, _)
FillWalls(pl, shape, walls) ==
    IF walls = <<>> THEN pl
    ELSE FillWalls(FillWall(pl, shape, Head(walls)), shape, Tail(walls))

\* The zones of the windows of a wall.
WindowZones(obstacles) ==
    LET ws == ObstaclesOfType(obstacles, "window") IN
    [i \in 1..Len(ws) |-> [start |-> ws[i].position - ws[i].width \div 2,
                           end |-> ws[i].position + ws[i].width \div 2]]

\* Mutant of OverlapsWindow: a module that only touches a window counts as
\* standing under it.
OverlapsWindow_touching(baseMod, windows) ==
    \E i \in 1..Len(windows) :
        /\ baseMod.position <= windows[i].end
        /\ baseMod.position + baseMod.width >= windows[i].start

\* windows.some(w => baseStart < w.end && baseEnd > w.start)
OverlapsWindow(baseMod, windows) ==
    \E i \in 1..Len(windows) :
        /\ baseMod.position < windows[i].end
        /\ baseMod.position + baseMod.width > windows[i].start

\* Mutant of MirrorOne: the upper module is always the widest one.
MirrorOne_widest(pl, wallId, baseMod, windows) ==
    IF OverlapsWindow(baseMod, windows) THEN pl
    ELSE Append(pl, Module(getWallModulesByWidth[1], "wall", wallId,
                           baseMod.position, "none", FALSE))

\* The body of `for (const baseMod of baseOnWall)`.
MirrorOne(pl, wallId, baseMod, windows) ==
    IF OverlapsWindow(baseMod, windows) THEN pl
    ELSE LET wallMods == getWallModulesByWidth
             matchingWall == FindExact(wallMods, baseMod.width)
             fitWall == FindFitting(wallMods, baseMod.width)
         IN  IF matchingWall = 0
             THEN IF fitWall # 0
                  THEN Append(pl, Module(wallMods[fitWall], "wall", wallId,
                                         baseMod.position, "none", FALSE))
                  ELSE pl
             ELSE Append(pl, Module(wallMods[matchingWall], "wall", wallId,
                                    baseMod.position, "none", FALSE))

RECURSIVE MirrorLoop(_, _, _, _)
MirrorLoop(pl, wallId, baseOnWall, windows) ==
    IF baseOnWall = <<>> THEN pl
    ELSE MirrorLoop(MirrorOne(pl, wallId, Head(baseOnWall), windows),
                    wallId, Tail(baseOnWall), windows)

\* Step 5 for one wall: baseOnWall is computed before the loop pushes.
MirrorWall(pl, wall) ==
    MirrorLoop(pl, wall.id, ModulesOn(pl, wall.id, "base"), WindowZones(wall.obstacles))

RECURSIVE MirrorWalls(_, _)
MirrorWalls(pl, walls) ==
    IF walls = <<>> THEN pl
    ELSE MirrorWalls(MirrorWall(pl, Head(walls)), Tail(walls))

\* The whole function, as the pair it returns: a is what the anchor pass
\* leaves, c what the corner step leaves, f what the greedy fill leaves.
generateLayout(st) ==
    CHOOSE r \in
        UNION { UNION { { [placed_modules |-> MirrorWalls(f, st.walls),
                           errors |-> a.errors] :
                            f \in {FillWalls(c, st.shape, st.walls)} } :
                        c \in {CornerStep(a.placed, st.shape)} } :
                a \in {AnchorWalls([placed |-> <<>>, errors |-> <<>>], st.walls)} } :
        TRUE

(***************************************************************************)
(* Room descriptions handed to the solver                                  *)
(***************************************************************************)

MaxObs == 2

Shapes == {"LINEAR", "L-SHAPED", "U-SHAPED"}

ObstacleTypes == {"window", "door", "column", "water_point", "smoke_outlet"}

\* DEFAULT_WIDTHS (state.js)
DEFAULT_WIDTHS(type) ==
    CASE type = "window" -> 1200
      [] type = "door" -> 800
      [] type = "column" -> 300
      [] type = "water_point" -> 0
      [] type = "smoke_outlet" -> 0

\* Centre positions the checked rooms use: near the wall's origin, left of the
\* middle, the middle of a 3000 wall.
Positions == {150, 1050, 1500}

\* Lengths of wall-A the checked rooms use: the default and a shortened wall.
WallALengths == {1000, 3000}

Obstacles ==
    { [type |-> t, position |-> p, width |-> DEFAULT_WIDTHS(t)] :
        t \in ObstacleTypes, p \in Positions }

createWall(id, length) == [id |-> id, length |-> length, obstacles |-> <<>>]

\* buildInitialState(shape), with wall-A's length a parameter.
buildInitialState(shape, lenA) ==
    [shape |-> shape,
     walls |-> <<createWall("wall-A", lenA)>>
               \o (IF HasCorner(shape) THEN <<createWall("wall-B", 2000)>> ELSE <<>>)
               \o (IF shape = "U-SHAPED" THEN <<createWall("wall-C", 3000)>> ELSE <<>>)]

\* wall.obstacles.push(obs) on wall number w.
PushObstacle(st, w, obs) ==
    [st EXCEPT !.walls[w].obstacles = Append(@, obs)]

RECURSIVE CountObstacles(_)
CountObstacles(walls) ==
    IF walls = <<>> THEN 0
    ELSE Len(Head(walls).obstacles) + CountObstacles(Tail(walls))

NoRoom == [shape |-> "LINEAR", walls |-> <<>>]

SolverInit ==
    /\ state \in { buildInitialState(s, l) : s \in Shapes, l \in WallALengths }
    /\ placed = <<>>
    /\ errors = <<>>
    /\ catalog = CATALOG

SolverIdle ==
    /\ state = NoRoom
    /\ placed = <<>>
    /\ errors = <<>>
    /\ catalog = CATALOG

\* The caller completes the room description before it calls the solver:
\* addObstacleToWall(wallId, type), then updateObstacle(id, { position }).
AddObstacle ==
    /\ pc = "start"
    /\ CountObstacles(state.walls) < MaxObs
    /\ \E w \in 1..Len(state.walls), o \in Obstacles :
           state' = PushObstacle(state, w, o)
    /\ UNCHANGED <<placed, errors, pc, catalog>>

\* Steps 1 and 2: anchors on every wall.
PlaceAnchors ==
    /\ pc = "start"
    /\ LET a == AnchorWalls([placed |-> placed, errors |-> errors], state.walls) IN
        /\ placed' = a.placed
        /\ errors' = a.errors
    /\ pc' = "anchors"
    /\ UNCHANGED <<state, catalog>>

\* Step 3: the corner module.
PlaceCorner ==
    /\ pc = "anchors"
    /\ placed' = CornerStep(placed, state.shape)
    /\ pc' = "corner"
    /\ UNCHANGED <<state, errors, catalog>>

\* Step 4: greedy fill of every wall.
GreedyFill ==
    /\ pc = "corner"
    /\ placed' = FillWalls(placed, state.shape, state.walls)
    /\ catalog' = CatalogAfterSort(catalog)
    /\ pc' = "filled"
    /\ UNCHANGED <<state, errors>>

\* Step 5: upper modules, then `return { placed_modules: placed, errors }`.
WallMirror ==
    /\ pc = "filled"
    /\ placed' = MirrorWalls(placed, state.walls)
    /\ catalog' = CatalogAfterSort(catalog)
    /\ pc' = "done"
    /\ UNCHANGED <<state, errors>>

(***************************************************************************)
(* calculateBudget (budget.js)                                             *)
(***************************************************************************)

\* A price in euros, in thousandths of a euro.
Money(euros) == euros * 1000

\* HARDWARE (catalog.js), in Object.entries order.
HARDWARE ==
    << [key |-> "HANDLE", label |-> "Tirador", price |-> 5, perModule |-> 1],
       [key |-> "LEGS", label |-> "Patas (x4)", price |-> 4, perModule |-> 1],
       [key |-> "HINGES", label |-> "Bisagras (x2)", price |-> 3, perModule |-> 1] >>

\* LINEALS (catalog.js)
LINEALS ==
    [COUNTERTOP |-> [label |-> "Encimera", pricePerMeter |-> 85],
     PLINTH |-> [label |-> "Zocalo", pricePerMeter |-> 15]]

\* Math.round(x * 100) / 100 for an amount x >= 0 in thousandths: the nearest
\* multiple of 10.  A tie (x ends in 5) goes up in exact arithmetic; the
\* product the code rounds carries a binary rounding error, which sends a tie
\* either way.
MathRound2(x) ==
    IF x % 10 = 5 THEN {x - 5, x + 5} ELSE {((x + 5) \div 10) * 10}

emptyBudget ==
    [moduleLines |-> <<>>, hardwareLines |-> <<>>, linealLines |-> <<>>,
     modulesTotal |-> 0, hardwareTotal |-> 0, linealTotal |-> 0,
     totalPrice |-> 0, moduleCount |-> 0, baseLinealM |-> 0]

RECURSIVE CountRefs_noIncrement(_, _)
\* Mutant of CountRefs: qty is set when the entry is created and not counted up.
CountRefs_noIncrement(mods, counts) ==
    IF mods = <<>> THEN counts
    ELSE LET mod == Head(mods)
             at == { i \in 1..Len(counts) : counts[i].ref = mod.ref }
         IN  IF at = {}
             THEN CountRefs_noIncrement(Tail(mods),
                            Append(counts, [ref |-> mod.ref, qty |-> 1, label |-> mod.label,
                                            price |-> mod.price, type |-> mod.type]))
             ELSE CountRefs_noIncrement(Tail(mods), counts)

RECURSIVE CountRefs(_, _)
\* for (const mod of placedModules) { counts[mod.ref] ... qty++ }: `counts`
\* as the sequence of its entries in insertion order.
CountRefs(mods, counts) ==
    IF mods = <<>> THEN counts
    ELSE LET mod == Head(mods)
             at == { i \in 1..Len(counts) : counts[i].ref = mod.ref }
         IN  IF at = {}
             THEN CountRefs(Tail(mods),
                            Append(counts, [ref |-> mod.ref, qty |-> 1, label |-> mod.label,
                                            price |-> mod.price, type |-> mod.type]))
             ELSE CountRefs(Tail(mods),
                            [counts EXCEPT ![CHOOSE i \in at : TRUE].qty = @ + 1])

\* moduleLines.push({ qty, ref, label, unitPrice, total, type })
ModuleLines(counts) ==
    [i \in 1..Len(counts) |->
        [qty |-> counts[i].qty, ref |-> counts[i].ref, label |-> counts[i].label,
         unitPrice |-> Money(counts[i].price),
         total |-> counts[i].qty * Money(counts[i].price), type |-> counts[i].type]]

\* Mutant of HardwareLines: the line total is the unit price.
HardwareLines_unitTotal(totalModuleCount) ==
    [i \in 1..Len(HARDWARE) |->
        [qty |-> totalModuleCount * HARDWARE[i].perModule, ref |-> HARDWARE[i].key,
         label |-> HARDWARE[i].label, unitPrice |-> Money(HARDWARE[i].price),
         total |-> Money(HARDWARE[i].price)]]

\* hardwareLines.push({ qty, ref, label, unitPrice, total })
HardwareLines(totalModuleCount) ==
    [i \in 1..Len(HARDWARE) |->
        [qty |-> totalModuleCount * HARDWARE[i].perModule, ref |-> HARDWARE[i].key,
         label |-> HARDWARE[i].label, unitPrice |-> Money(HARDWARE[i].price),
         total |-> totalModuleCount * HARDWARE[i].perModule * Money(HARDWARE[i].price)]]

RECURSIVE SumTotals(_)
\* total += lineTotal, over the lines
SumTotals(lines) ==
    IF lines = <<>> THEN 0 ELSE Head(lines).total + SumTotals(Tail(lines))

RECURSIVE SumBaseWidths_all(_)
\* Mutant of SumBaseWidths: upper modules are measured too.
SumBaseWidths_all(mods) ==
    IF mods = <<>> THEN 0 ELSE Head(mods).width + SumBaseWidths_all(Tail(mods))

RECURSIVE SumBaseWidths(_)
\* placedModules.filter(m => m.type === 'base').reduce((sum, m) => sum + m.width, 0)
SumBaseWidths(mods) ==
    IF mods = <<>> THEN 0
    ELSE (IF Head(mods).type = "base" THEN Head(mods).width ELSE 0)
         + SumBaseWidths(Tail(mods))

\* linealLines.push({ qty: 1, ref, label, unitPrice: cost, total: cost }); the
\* label carries baseLinealM.toFixed(2), here the length in millimetres.
LinealLine(ref, label, baseLinealMM, cost) ==
    [qty |-> 1, ref |-> ref, label |-> <<label, baseLinealMM>>,
     unitPrice |-> cost, total |-> cost]

\* Mutant of GrandTotal: the hardware subtotal is left out.
GrandTotal_noHardware(modulesTotal, hardwareTotal, linealTotal) ==
    modulesTotal + linealTotal

\* const totalPrice = modulesTotal + hardwareTotal + linealTotal
GrandTotal(modulesTotal, hardwareTotal, linealTotal) ==
    modulesTotal + hardwareTotal + linealTotal

\* Mutant of IsEmptyList: a missing list is caught, an empty one is not.
IsEmptyList_missingOnly(pm) == ~pm.given

\* !placedModules || placedModules.length === 0
IsEmptyList(pm) == ~pm.given \/ Len(pm.modules) = 0

\* The budgets calculateBudget can return for the list pm.  baseLinealM is kept
\* in thousandths of a metre; metres * pricePerMeter is then thousandths of a
\* euro.
calculateBudget(pm) ==
    IF IsEmptyList(pm) THEN {emptyBudget}
    ELSE LET moduleLines == ModuleLines(CountRefs(pm.modules, <<>>))
             modulesTotal == SumTotals(moduleLines)
             totalModuleCount == Len(pm.modules)
             hardwareLines == HardwareLines(totalModuleCount)
             hardwareTotal == SumTotals(hardwareLines)
             baseLinealMM == SumBaseWidths(pm.modules)
         IN  UNION {
               { [moduleLines |-> moduleLines,
                  hardwareLines |-> hardwareLines,
                  linealLines |->
                      << LinealLine("COUNTERTOP", LINEALS.COUNTERTOP.label, baseLinealMM, ctCost),
                         LinealLine("PLINTH", LINEALS.PLINTH.label, baseLinealMM, plCost) >>,
                  modulesTotal |-> modulesTotal,
                  hardwareTotal |-> hardwareTotal,
                  linealTotal |-> ctCost + plCost,
                  totalPrice |-> totalPrice,
                  moduleCount |-> totalModuleCount,
                  baseLinealM |-> baseLinealMM] :
                 totalPrice \in MathRound2(GrandTotal(modulesTotal, hardwareTotal,
                                                      ctCost + plCost)) } :
               ctCost \in MathRound2(baseLinealMM * LINEALS.COUNTERTOP.pricePerMeter),
               plCost \in MathRound2(baseLinealMM * LINEALS.PLINTH.pricePerMeter) }

(***************************************************************************)
(* Placement lists handed to calculateBudget                               *)
(***************************************************************************)

MaxMods == 3

\* Modules as the solver places them, and one module of a catalog whose width
\* is an odd number of millimetres.
ModulePool ==
    { Module(CatalogFind("B15"), "base", "wall-A", 0, "none", FALSE),
      Module(CatalogFind("SINK60"), "base", "wall-A", 750, "water_point", FALSE),
      Module(CatalogFind("CORNER90"), "base", "corner-AB", 0, "none", TRUE),
      Module(CatalogFind("A60"), "wall", "wall-A", 750, "none", FALSE),
      Module(Item("B155", "Bajo 15.5", "base", 155, 600, 26, "none", FALSE),
             "base", "wall-B", 930, "none", FALSE) }

PlacementLists ==
    { [given |-> TRUE, modules |-> l] :
        l \in UNION { [1..n -> ModulePool] : n \in 0..MaxMods } }
    \cup { [given |-> FALSE, modules |-> <<>>] }

NoBudget == <<>>

BudgetInit ==
    /\ placedModules \in PlacementLists
    /\ budget = NoBudget

BudgetIdle ==
    /\ placedModules = [given |-> TRUE, modules |-> <<>>]
    /\ budget = NoBudget

\* budget = calculateBudget(placedModules)
CallCalculateBudget ==
    /\ pc = "list"
    /\ budget' \in calculateBudget(placedModules)
    /\ pc' = "priced"
    /\ UNCHANGED placedModules

\* handleGenerate: const budget = calculateBudget(placed_modules), on the list
\* generateLayout returned.
PriceLayout ==
    /\ pc = "done"
    /\ budget' \in calculateBudget([given |-> TRUE, modules |-> placed])
    /\ pc' = "budgeted"
    /\ UNCHANGED <<state, placed, errors, catalog>>

(***************************************************************************)
(* The state container (state.js) and handleGenerate (panel.js)            *)
(*                                                                         *)
(* null is written "null" for a wall id or a tool, 0 for an obstacle id    *)
(* (ids are the values of obstacleCounter, which starts at 1), and <<>>    *)
(* for the budget, which is <<b>> once a budget b is stored.               *)
(***************************************************************************)

\* Mutant of InitialRoomState: the U-SHAPED branch forgets wall-B.
InitialRoomState_noWallB(shape) ==
    [shape |-> shape,
     walls |-> SelectSeq2(buildInitialState(shape, 3000).walls,
                          { w \in SeqToSet(buildInitialState(shape, 3000).walls) :
                              shape # "U-SHAPED" \/ w.id # "wall-B" }),
     ceilingHeight |-> 2400, placed_modules |-> <<>>, budget |-> <<>>,
     solverErrors |-> <<>>]

\* buildInitialState(shape), with every field of `base`.
InitialRoomState(shape) ==
    [shape |-> shape,
     walls |-> buildInitialState(shape, 3000).walls,
     ceilingHeight |-> 2400, placed_modules |-> <<>>, budget |-> <<>>,
     solverErrors |-> <<>>]

InitialUIState ==
    [selectedWallId |-> "null", selectedObstacleId |-> 0, activeTool |-> "null",
     solverRunning |-> FALSE]

\* getState(): JSON.parse(JSON.stringify(roomState)).  Every value the
\* container holds is a finite number, a string, null, or an array or object
\* of these, which the round trip copies as it is.
getState(rs) == rs

\* What notify() hands to each subscriber.
Snapshot(st) == [state |-> getState(st.roomState), ui |-> st.uiState]

\* roomState.walls.find(w => w.id === wallId): its index, 0 for undefined.
FindWall(rs, wallId) ==
    LET hits == { w \in 1..Len(rs.walls) : rs.walls[w].id = wallId } IN
    IF hits = {} THEN 0 ELSE CHOOSE w \in hits : \A v \in hits : w <= v

\* The index of the first wall that holds the obstacle, 0 when none does.
WallOfObstacle(rs, obstacleId) ==
    LET hits == { w \in 1..Len(rs.walls) :
                    \E k \in 1..Len(rs.walls[w].obstacles) :
                        rs.walls[w].obstacles[k].id = obstacleId } IN
    IF hits = {} THEN 0 ELSE CHOOSE w \in hits : \A v \in hits : w <= v

\* wall.obstacles.findIndex(o => o.id === obstacleId), counted from 1.
ObstacleIndex(wall, obstacleId) ==
    CHOOSE k \in 1..Len(wall.obstacles) :
        /\ wall.obstacles[k].id = obstacleId
        /\ \A j \in 1..Len(wall.obstacles) : wall.obstacles[j].id = obstacleId => k <= j

\* Math.round(wall.length / 2) for a length >= 0.
RoundHalf(length) == (length + 1) \div 2

\* createObstacle(type, position, DEFAULT_WIDTHS[type]) after obstacleCounter++.
createObstacle(counter, type, position) ==
    [id |-> counter, type |-> type, position |-> position,
     width |-> DEFAULT_WIDTHS(type)]

\* Each operation maps the container st = (roomState, uiState,
\* obstacleCounter) to the container it leaves; `notified` tells whether it
\* reached its notify() call.
Container(rs, ui, counter, notified) ==
    [roomState |-> rs, uiState |-> ui, obstacleCounter |-> counter, notified |-> notified]

setShape(st, shape) ==
    Container(InitialRoomState(shape), InitialUIState, st.obstacleCounter, TRUE)

\* Mutant of setWallLength: the stored layout is dropped when a wall changes.
setWallLength_clearing(st, wallId, length) ==
    LET w == FindWall(st.roomState, wallId) IN
    IF w = 0 THEN [st EXCEPT !.notified = FALSE]
    ELSE [st EXCEPT !.roomState.walls[w].length = length,
                    !.roomState.placed_modules = <<>>,
                    !.roomState.budget = <<>>,
                    !.roomState.solverErrors = <<>>,
                    !.notified = TRUE]

setWallLength(st, wallId, length) ==
    LET w == FindWall(st.roomState, wallId) IN
    IF w = 0 THEN [st EXCEPT !.notified = FALSE]
    ELSE [st EXCEPT !.roomState.walls[w].length = length, !.notified = TRUE]

setCeilingHeight(st, height) ==
    [st EXCEPT !.roomState.ceilingHeight = height, !.notified = TRUE]

selectWall(st, wallId) ==
    LET w == FindWall(st.roomState, wallId)
        tool == st.uiState.activeTool
    IN  IF tool # "null" /\ wallId # "null" /\ w # 0
        THEN LET obs == createObstacle(st.obstacleCounter + 1, tool,
                                       RoundHalf(st.roomState.walls[w].length))
             IN  [st EXCEPT !.roomState.walls[w].obstacles = Append(@, obs),
                            !.uiState.selectedWallId = wallId,
                            !.uiState.selectedObstacleId = obs.id,
                            !.uiState.activeTool = "null",
                            !.obstacleCounter = @ + 1,
                            !.notified = TRUE]
        ELSE [st EXCEPT !.uiState.selectedWallId = wallId,
                        !.uiState.selectedObstacleId = 0,
                        !.notified = TRUE]

selectObstacle(st, obstacleId) ==
    LET w == WallOfObstacle(st.roomState, obstacleId) IN
    [st EXCEPT !.uiState.selectedObstacleId = obstacleId,
               !.uiState.selectedWallId =
                   IF obstacleId # 0 /\ w # 0 THEN st.roomState.walls[w].id ELSE @,
               !.notified = TRUE]

setActiveTool(st, tool) ==
    [st EXCEPT !.uiState.activeTool = IF @ = tool THEN "null" ELSE tool,
               !.uiState.selectedObstacleId = 0,
               !.notified = TRUE]

clearSelection(st) ==
    [st EXCEPT !.uiState.selectedWallId = "null",
               !.uiState.selectedObstacleId = 0,
               !.uiState.activeTool = "null",
               !.notified = TRUE]

setSolverRunning(st, val) ==
    [st EXCEPT !.uiState.solverRunning = val, !.notified = TRUE]

addObstacleToWall(st, wallId, type) ==
    LET w == FindWall(st.roomState, wallId) IN
    IF w = 0 THEN [st EXCEPT !.notified = FALSE]
    ELSE LET obs == createObstacle(st.obstacleCounter + 1, type,
                                   RoundHalf(st.roomState.walls[w].length))
         IN  [st EXCEPT !.roomState.walls[w].obstacles = Append(@, obs),
                        !.uiState.selectedObstacleId = obs.id,
                        !.uiState.selectedWallId = wallId,
                        !.obstacleCounter = @ + 1,
                        !.notified = TRUE]

\* updateObstacle(obstacleId, { position }) and updateObstacle(obstacleId,
\* { width }): field names the patched field.
updateObstacle(st, obstacleId, field, val) ==
    LET w == WallOfObstacle(st.roomState, obstacleId) IN
    IF w = 0 THEN [st EXCEPT !.notified = FALSE]
    ELSE LET k == ObstacleIndex(st.roomState.walls[w], obstacleId) IN
         IF field = "position"
         THEN [st EXCEPT !.roomState.walls[w].obstacles[k].position = val,
                         !.notified = TRUE]
         ELSE [st EXCEPT !.roomState.walls[w].obstacles[k].width = val,
                         !.notified = TRUE]

removeObstacle(st, obstacleId) ==
    LET w == WallOfObstacle(st.roomState, obstacleId) IN
    IF w = 0 THEN [st EXCEPT !.notified = FALSE]
    ELSE LET k == ObstacleIndex(st.roomState.walls[w], obstacleId)
             obs == st.roomState.walls[w].obstacles
         IN  [st EXCEPT !.roomState.walls[w].obstacles =
                            SubSeq(obs, 1, k - 1) \o SubSeq(obs, k + 1, Len(obs)),
                        !.uiState.selectedObstacleId =
                            IF @ = obstacleId THEN 0 ELSE @,
                        !.notified = TRUE]

setPlacedModules(st, modules) ==
    [st EXCEPT !.roomState.placed_modules = modules, !.notified = TRUE]

setBudget(st, b) == [st EXCEPT !.roomState.budget = <<b>>, !.notified = TRUE]

setSolverErrors(st, errs) ==
    [st EXCEPT !.roomState.solverErrors = errs, !.notified = TRUE]

clearModules(st) ==
    [st EXCEPT !.roomState.placed_modules = <<>>,
               !.roomState.budget = <<>>,
               !.roomState.solverErrors = <<>>,
               !.notified = TRUE]

(***************************************************************************)
(* What the user and handleGenerate do to the container                    *)
(***************************************************************************)

\* How many obstacles are created: obstacleCounter stops here.
MaxCreated == 1

\* The obstacle tools the user picks.
StoreTools == {"door"}

\* The wall whose length field is edited.
StoreWalls == {"wall-A"}

\* The lengths typed into a wall's length field.
StoreLengths == {1000}

\* The heights typed into the ceiling field.
StoreHeights == {2700}

\* The positions typed into the selected obstacle's position field: the
\* middle of a wall of the initial length, which is past the end of a wall
\* shortened to 1000.
StorePositions == {1500}

\* state.js after the module is loaded.
StoreInit ==
    /\ roomState = InitialRoomState("LINEAR")
    /\ uiState = InitialUIState
    /\ obstacleCounter = 0
    /\ gen = "idle"
    /\ delivered = <<>>

Current == Container(roomState, uiState, obstacleCounter, FALSE)

\* The container an operation leaves, and the snapshot its notify() delivers.
Leaves(st) ==
    /\ roomState' = st.roomState
    /\ uiState' = st.uiState
    /\ obstacleCounter' = st.obstacleCounter
    /\ delivered' = IF st.notified THEN <<Snapshot(st)>> ELSE <<>>

\* The obstacle the properties panel shows: the selected one, when a wall
\* holds it.
SelectedObstacle ==
    LET w == WallOfObstacle(roomState, uiState.selectedObstacleId) IN
    roomState.walls[w].obstacles[ObstacleIndex(roomState.walls[w],
                                               uiState.selectedObstacleId)]

HasSelectedObstacle ==
    /\ uiState.selectedObstacleId # 0
    /\ WallOfObstacle(roomState, uiState.selectedObstacleId) # 0

\* A geometry button.
ClickShape ==
    /\ \E shape \in Shapes : Leaves(setShape(Current, shape))
    /\ UNCHANGED gen

\* A wall's length field: `if (!val || val <= 0) return; setWallLength(id, val)`.
EditWallLength ==
    /\ \E id \in StoreWalls, l \in StoreLengths :
           l > 0 /\ Leaves(setWallLength(Current, id, l))
    /\ UNCHANGED gen

\* The ceiling field.
EditCeilingHeight ==
    /\ \E h \in StoreHeights : h > 0 /\ Leaves(setCeilingHeight(Current, h))
    /\ UNCHANGED gen

\* A click on a wall of the canvas.
ClickWall ==
    /\ uiState.activeTool # "null" => obstacleCounter < MaxCreated
    /\ \E w \in 1..Len(roomState.walls) :
           Leaves(selectWall(Current, roomState.walls[w].id))
    /\ UNCHANGED gen

\* A click on an obstacle of the canvas.
ClickObstacle ==
    /\ \E w \in 1..Len(roomState.walls) :
           \E k \in 1..Len(roomState.walls[w].obstacles) :
               Leaves(selectObstacle(Current, roomState.walls[w].obstacles[k].id))
    /\ UNCHANGED gen

\* A click on the canvas that hits nothing.
ClickNothing ==
    /\ Leaves(clearSelection(Current))
    /\ UNCHANGED gen

\* A tool button.
ClickTool ==
    /\ \E tool \in StoreTools : Leaves(setActiveTool(Current, tool))
    /\ UNCHANGED gen

\* addObstacleToWall, which the container exports.
AddObstacleToWall ==
    /\ obstacleCounter < MaxCreated
    /\ \E w \in 1..Len(roomState.walls), type \in StoreTools :
           Leaves(addObstacleToWall(Current, roomState.walls[w].id, type))
    /\ UNCHANGED gen

\* The position field: `if (val >= 0) updateObstacle(selectedObs.id, { position: val })`.
EditObstaclePosition ==
    /\ HasSelectedObstacle
    /\ \E p \in StorePositions :
           p >= 0 /\ Leaves(updateObstacle(Current, uiState.selectedObstacleId, "position", p))
    /\ UNCHANGED gen

\* The delete button of the properties panel.
DeleteObstacle ==
    /\ HasSelectedObstacle
    /\ Leaves(removeObstacle(Current, uiState.selectedObstacleId))
    /\ UNCHANGED gen

\* clearModules, which the container exports.
ClearModules ==
    /\ Leaves(clearModules(Current))
    /\ UNCHANGED gen

\* handleGenerate up to its await; the button is disabled while a call is
\* pending.
StartGenerate ==
    /\ gen = "idle"
    /\ Leaves(setSolverRunning(Current, TRUE))
    /\ gen' = "waiting"

\* handleGenerate after its await, which runs without interruption: the
\* solver and the budget on getState(), the three stores and
\* setSolverRunning(false), each with its own notify().
FinishGenerate ==
    /\ gen = "waiting"
    /\ LET r == generateLayout(getState(roomState)) IN
       \E b \in calculateBudget([given |-> TRUE, modules |-> r.placed_modules]) :
           LET s1 == setPlacedModules(Current, r.placed_modules)
               s2 == setBudget(s1, b)
               s3 == setSolverErrors(s2, r.errors)
               s4 == setSolverRunning(s3, FALSE)
           IN  /\ roomState' = s4.roomState
               /\ uiState' = s4.uiState
               /\ delivered' = <<Snapshot(s1), Snapshot(s2), Snapshot(s3), Snapshot(s4)>>
    /\ gen' = "idle"
    /\ UNCHANGED obstacleCounter

BudgetNext == CallCalculateBudget /\ UNCHANGED <<zoneVars, solverVars, storeVars>>

InitBudget == BudgetInit /\ ZoneIdle /\ SolverIdle /\ StoreInit /\ pc = "list"

SpecBudget == InitBudget /\ [][BudgetNext]_vars

Next ==
    \/ AddObstacle /\ UNCHANGED <<zoneVars, budgetVars, storeVars>>
    \/ PlaceAnchors /\ UNCHANGED <<zoneVars, budgetVars, storeVars>>
    \/ PlaceCorner /\ UNCHANGED <<zoneVars, budgetVars, storeVars>>
    \/ GreedyFill /\ UNCHANGED <<zoneVars, budgetVars, storeVars>>
    \/ WallMirror /\ UNCHANGED <<zoneVars, budgetVars, storeVars>>
    \/ PriceLayout /\ UNCHANGED <<zoneVars, placedModules, storeVars>>

Init == SolverInit /\ ZoneIdle /\ BudgetIdle /\ StoreInit /\ pc = "start"

Spec == Init /\ [][Next]_vars

ZoneNext ==
    \/ CallMergeZones /\ UNCHANGED <<solverVars, budgetVars, storeVars>>
    \/ CallFindFreeSegments /\ UNCHANGED <<solverVars, budgetVars, storeVars>>

InitZones == ZoneInit /\ SolverIdle /\ BudgetIdle /\ StoreInit /\ pc = "zones"

SpecZones == InitZones /\ [][ZoneNext]_vars

StoreNext ==
    \/ ClickShape /\ UNCHANGED <<zoneVars, solverVars, budgetVars, pc>>
    \/ EditWallLength /\ UNCHANGED <<zoneVars, solverVars, budgetVars, pc>>
    \/ EditCeilingHeight /\ UNCHANGED <<zoneVars, solverVars, budgetVars, pc>>
    \/ ClickWall /\ UNCHANGED <<zoneVars, solverVars, budgetVars, pc>>
    \/ ClickObstacle /\ UNCHANGED <<zoneVars, solverVars, budgetVars, pc>>
    \/ ClickNothing /\ UNCHANGED <<zoneVars, solverVars, budgetVars, pc>>
    \/ ClickTool /\ UNCHANGED <<zoneVars, solverVars, budgetVars, pc>>
    \/ AddObstacleToWall /\ UNCHANGED <<zoneVars, solverVars, budgetVars, pc>>
    \/ EditObstaclePosition /\ UNCHANGED <<zoneVars, solverVars, budgetVars, pc>>
    \/ DeleteObstacle /\ UNCHANGED <<zoneVars, solverVars, budgetVars, pc>>
    \/ ClearModules /\ UNCHANGED <<zoneVars, solverVars, budgetVars, pc>>
    \/ StartGenerate /\ UNCHANGED <<zoneVars, solverVars, budgetVars, pc>>
    \/ FinishGenerate /\ UNCHANGED <<zoneVars, solverVars, budgetVars, pc>>

InitStore == StoreInit /\ ZoneIdle /\ SolverIdle /\ BudgetIdle /\ pc = "store"

SpecStore == InitStore /\ [][StoreNext]_vars

(***************************************************************************)
(* Properties of generateLayout                                            *)
(***************************************************************************)

\* The wall of the room whose id is wallId.
WallById(wallId) ==
    state.walls[CHOOSE w \in 1..Len(state.walls) : state.walls[w].id = wallId]

\* Half-open intervals [s1, e1) and [s2, e2) share a point.
Overlap(s1, e1, s2, e2) == s1 < e2 /\ s2 < e1

ModulesOverlap(a, b) ==
    Overlap(a.position, a.position + a.width, b.position, b.position + b.width)

IsAnchor(m) == m.type = "base" /\ m.anchor # "none"

IsGreedy(m) == m.type = "base" /\ m.anchor = "none" /\ ~m.corner

\* An upper module that stands on an anchor module.
MirrorsAnchor(m) ==
    /\ m.type = "wall"
    /\ \E k \in 1..Len(placed) :
           /\ IsAnchor(placed[k])
           /\ placed[k].wallId = m.wallId
           /\ placed[k].position = m.position

\* C1: every non-corner module that generateLayout returns lies within the
\* wall its wallId names: position >= 0 and position + width <= wall length.
C1_ModulesWithinWall ==
    pc = "done" =>
        \A i \in 1..Len(placed) :
            ~placed[i].corner =>
                /\ placed[i].position >= 0
                /\ placed[i].position + placed[i].width
                       <= WallById(placed[i].wallId).length

\* C2 as stated: no two distinct returned modules that share a wallId overlap.
C2_NoOverlapOnWall ==
    pc = "done" =>
        \A i, j \in 1..Len(placed) :
            (i # j /\ placed[i].wallId = placed[j].wallId)
                => ~ModulesOverlap(placed[i], placed[j])

\* C2 amended: two distinct returned modules that share a wallId and a type do
\* not overlap, unless both are anchor modules or both stand on anchor modules;
\* and every upper module lies within a base module at its own position.
C2_NoOverlapSameLevel ==
    pc = "done" =>
        /\ \A i, j \in 1..Len(placed) :
               ( /\ i # j
                 /\ placed[i].wallId = placed[j].wallId
                 /\ placed[i].type = placed[j].type
                 /\ ~(IsAnchor(placed[i]) /\ IsAnchor(placed[j]))
                 /\ ~(MirrorsAnchor(placed[i]) /\ MirrorsAnchor(placed[j])) )
                   => ~ModulesOverlap(placed[i], placed[j])
        /\ \A i \in 1..Len(placed) :
               placed[i].type = "wall" =>
                   \E k \in 1..Len(placed) :
                       /\ placed[k].type = "base"
                       /\ placed[k].wallId = placed[i].wallId
                       /\ placed[k].position = placed[i].position
                       /\ placed[i].width <= placed[k].width

\* C2 witness: a returned layout in which one wall carries an anchor module,
\* greedy-filled modules on both sides of it, and upper modules.
C2_Witness ==
    /\ pc = "done"
    /\ \E a, g, h, u, v \in 1..Len(placed) :
           /\ IsAnchor(placed[a]) /\ IsGreedy(placed[g]) /\ IsGreedy(placed[h])
           /\ placed[u].type = "wall" /\ placed[v].type = "wall" /\ u # v
           /\ placed[g].wallId = placed[a].wallId
           /\ placed[h].wallId = placed[a].wallId
           /\ placed[u].wallId = placed[a].wallId
           /\ placed[v].wallId = placed[a].wallId
           /\ placed[g].position < placed[a].position
           /\ placed[h].position > placed[a].position

\* C3: no two floor-level (type base) modules with the same wallId overlap,
\* anchors included.
C3_NoBaseOverlap ==
    pc = "done" =>
        \A i, j \in 1..Len(placed) :
            ( /\ i # j
              /\ placed[i].type = "base" /\ placed[j].type = "base"
              /\ placed[i].wallId = placed[j].wallId )
                => ~ModulesOverlap(placed[i], placed[j])

\* C4: no returned non-corner module overlaps the zone
\* [position - width/2, position + width/2) of a door or column of its wall.
C4_ClearOfDoorsAndColumns ==
    pc = "done" =>
        \A i \in 1..Len(placed) :
            ~placed[i].corner =>
                LET obs == WallById(placed[i].wallId).obstacles IN
                \A k \in 1..Len(obs) :
                    obs[k].type \in {"door", "column"} =>
                        ~Overlap(placed[i].position, placed[i].position + placed[i].width,
                                 obs[k].position - obs[k].width \div 2,
                                 obs[k].position + obs[k].width \div 2)

\* C4 witness: a returned layout with a door or column on a wall that also
\* carries an anchor module and a greedy-filled module past the obstacle.
C4_Witness ==
    /\ pc = "done"
    /\ \E a, g \in 1..Len(placed) :
           /\ IsAnchor(placed[a]) /\ IsGreedy(placed[g])
           /\ placed[g].wallId = placed[a].wallId
           /\ LET obs == WallById(placed[a].wallId).obstacles IN
              \E k \in 1..Len(obs) :
                  /\ obs[k].type \in {"door", "column"}
                  /\ placed[g].position >= obs[k].position + obs[k].width \div 2
                  /\ placed[a].position + placed[a].width
                         <= obs[k].position - obs[k].width \div 2

(***************************************************************************)
(* Properties of the zone algebra                                          *)
(***************************************************************************)

\* The number of intervals of the sequence zs that hold the point x.
Covering(zs, x) == Cardinality({ i \in 1..Len(zs) : zs[i].start <= x /\ x < zs[i].end })

\* The unit cells [x, x + 1) the inputs can reach.
Cells == (0 - 2)..(Max(MaxCoord, WallLen) + 1)

\* C5 as stated: the free segments and the merged zones partition
\* [0, wallLength): every cell inside is covered once, no cell outside is covered.
C5_ExactPartition ==
    pc = "freed" =>
        \A x \in Cells :
            Covering(free, x) + Covering(merged, x)
                = (IF 0 <= x /\ x < WallLen THEN 1 ELSE 0)

\* C5 amended: the free segments and the merged zones are pairwise disjoint
\* and cover [0, wallLength); they cover nothing else when every occupied zone
\* lies within [0, wallLength].
C5_DisjointCover ==
    pc = "freed" =>
        /\ \A x \in Cells : Covering(free, x) + Covering(merged, x) <= 1
        /\ \A x \in 0..(WallLen - 1) : Covering(free, x) + Covering(merged, x) = 1
        /\ (\A i \in 1..Len(zones) : 0 <= zones[i].start /\ zones[i].end <= WallLen)
               => \A x \in Cells \ (0..(WallLen - 1)) :
                      Covering(free, x) + Covering(merged, x) = 0

\* C5 witness: zones within the wall, two different ones merged into one
\* non-empty zone, with a free segment before it and one behind it.
C5_Witness ==
    /\ pc = "freed"
    /\ \A i \in 1..Len(zones) : 0 <= zones[i].start /\ zones[i].end <= WallLen
    /\ Len(zones) >= 2
    /\ zones[1] # zones[2]
    /\ Len(merged) = 1
    /\ merged[1].start < merged[1].end
    /\ Len(free) = 2

\* C6: mergeZones returns zones sorted by start, each starting strictly after
\* the end of the one before it.
C6_MergedSortedApart ==
    pc \in {"merged", "freed"} =>
        \A i \in 1..(Len(merged) - 1) :
            /\ merged[i].start <= merged[i + 1].start
            /\ merged[i + 1].start > merged[i].end

\* C6 witness: a call that merged some zones and returned at least two.
C6_Witness ==
    /\ pc = "merged"
    /\ Len(merged) >= 2
    /\ Len(merged) < Len(zones)

\* C7: mergeZones is idempotent: merging its result again returns the result.
C7_MergeIdempotent ==
    pc \in {"merged", "freed"} => mergeZones(merged) = merged

\* C7 witness: a call on unsorted zones whose result differs from its argument
\* and holds a zone that swallowed a later, disjoint-looking one.
C7_Witness ==
    /\ pc = "merged"
    /\ Len(zones) = MaxZones
    /\ zones # SortByStart(zones)
    /\ Len(merged) = 2
    /\ \E i \in 1..Len(zones) : \A k \in 1..Len(merged) : zones[i] # merged[k]

(***************************************************************************)
(* Properties of calculateBudget                                           *)
(***************************************************************************)

\* An amount is a whole number of cents within half a cent of the amount x.
IsRounded2(amount, x) == amount % 10 = 0 /\ amount - x \in (0 - 5)..5

\* C9: totalPrice is modulesTotal + hardwareTotal + linealTotal rounded to 2
\* decimals, and linealTotal is the sum of the countertop and the plinth cost,
\* each rounded to 2 decimals on its own.
C9_TotalIsRoundedSum ==
    pc = "priced" =>
        /\ IsRounded2(budget.totalPrice,
                      budget.modulesTotal + budget.hardwareTotal + budget.linealTotal)
        /\ budget.linealTotal = SumTotals(budget.linealLines)
        /\ ~IsEmptyList(placedModules) =>
               /\ Len(budget.linealLines) = 2
               /\ IsRounded2(budget.linealLines[1].total,
                             SumBaseWidths(placedModules.modules) * 85)
               /\ IsRounded2(budget.linealLines[2].total,
                             SumBaseWidths(placedModules.modules) * 15)

\* C9 witness: a priced list of several modules whose base length is an odd
\* number of millimetres, so that both lineal costs are rounded.
C9_Witness ==
    /\ pc = "priced"
    /\ budget.moduleCount >= 2
    /\ budget.baseLinealM % 2 = 1
    /\ budget.linealTotal > 0

\* C10: for an empty or missing list calculateBudget returns the budget with
\* no lines and every total and count 0.
C10_EmptyListAllZero ==
    (pc = "priced" /\ (~placedModules.given \/ Len(placedModules.modules) = 0)) =>
        /\ budget.moduleLines = <<>>
        /\ budget.hardwareLines = <<>>
        /\ budget.linealLines = <<>>
        /\ budget.modulesTotal = 0
        /\ budget.hardwareTotal = 0
        /\ budget.linealTotal = 0
        /\ budget.totalPrice = 0
        /\ budget.moduleCount = 0
        /\ budget.baseLinealM = 0

\* C10 witness: calculateBudget has returned for a list that is given and empty.
C10_Witness ==
    /\ pc = "priced"
    /\ placedModules.given
    /\ placedModules.modules = <<>>

(***************************************************************************)
(* Properties of the anchor, corner, fill and mirror steps                 *)
(***************************************************************************)

IsPoint(o) == o.type = "water_point" \/ o.type = "smoke_outlet"

\* The catalog ref of the module that stands on a point obstacle.
AnchorRef(type) == IF type = "water_point" THEN "SINK60" ELSE "OVEN60"

\* [s, e) overlaps the zone of a door or column of the wall.
BlockingHit(wall, s, e) ==
    \E k \in 1..Len(wall.obstacles) :
        /\ wall.obstacles[k].type \in {"door", "column"}
        /\ Overlap(s, e,
                   wall.obstacles[k].position - wall.obstacles[k].width \div 2,
                   wall.obstacles[k].position + wall.obstacles[k].width \div 2)

\* The point obstacle o of the wall passes its own conflict and bounds checks.
Passes(wall, o) ==
    /\ ~BlockingHit(wall, o.position - 300, o.position + 300)
    /\ 0 <= o.position - 300
    /\ o.position + 300 <= wall.length

\* How many returned modules are anchors with this ref, wall and position.
AnchorsAt(wallId, ref, pos) ==
    Cardinality({ k \in 1..Len(placed) :
                    /\ placed[k].ref = ref /\ placed[k].type = "base"
                    /\ placed[k].anchor # "none"
                    /\ placed[k].wallId = wallId /\ placed[k].position = pos })

\* The base module m stands under a window of its wall.
UnderWindow(m) ==
    LET obs == WallById(m.wallId).obstacles IN
    \E k \in 1..Len(obs) :
        /\ obs[k].type = "window"
        /\ Overlap(m.position, m.position + m.width,
                   obs[k].position - obs[k].width \div 2,
                   obs[k].position + obs[k].width \div 2)

WallIds == { state.walls[w].id : w \in 1..Len(state.walls) }

\* The zones of the doors and columns of a wall.
DoorColumnIntervals(wall) ==
    { [start |-> wall.obstacles[k].position - wall.obstacles[k].width \div 2,
       end |-> wall.obstacles[k].position + wall.obstacles[k].width \div 2] :
        k \in { j \in 1..Len(wall.obstacles) :
                  wall.obstacles[j].type \in {"door", "column"} } }

\* The corner module's footprint on wall-A and wall-B.
CornerFootprint(wall) ==
    IF state.shape \in {"L-SHAPED", "U-SHAPED"} /\ wall.id \in {"wall-A", "wall-B"}
    THEN {[start |-> 0, end |-> 930]} ELSE {}

\* What stands on the floor of a wall: door and column zones, the base modules
\* of the wall, and the corner's footprint.
FloorIntervals(wall) ==
    DoorColumnIntervals(wall) \cup CornerFootprint(wall)
    \cup { [start |-> placed[k].position, end |-> placed[k].position + placed[k].width] :
             k \in { j \in 1..Len(placed) :
                       placed[j].type = "base" /\ placed[j].wallId = wall.id } }

\* No stretch of 150 mm of the wall's floor, inside the wall, is left empty:
\* an empty stretch starts at 0 or where something on the floor ends.
NoGapLeft(wall) ==
    \A x \in {0} \cup { z.end : z \in FloorIntervals(wall) } :
        (x >= 0 /\ x + 150 <= wall.length) =>
            \E z \in FloorIntervals(wall) : Overlap(x, x + 150, z.start, z.end)

\* C11: when an anchor was rejected, generateLayout still returns a layout in
\* which every point obstacle that passes its own checks has its anchor
\* module, the corner module is there for a room with a corner, every wall is
\* filled, and every base module of a wall not under a window has an upper one.
C11_RejectionDoesNotAbort ==
    (pc = "done" /\ errors # <<>>) =>
        /\ \A w \in 1..Len(state.walls) :
               LET wall == state.walls[w] IN
               /\ \A k \in 1..Len(wall.obstacles) :
                      (IsPoint(wall.obstacles[k]) /\ Passes(wall, wall.obstacles[k])) =>
                          AnchorsAt(wall.id, AnchorRef(wall.obstacles[k].type),
                                    wall.obstacles[k].position - 300) >= 1
               /\ NoGapLeft(wall)
        /\ state.shape \in {"L-SHAPED", "U-SHAPED"} =>
               \E i \in 1..Len(placed) : placed[i].corner
        /\ \A i \in 1..Len(placed) :
               ( /\ placed[i].type = "base" /\ placed[i].wallId \in WallIds
                 /\ ~UnderWindow(placed[i]) ) =>
                   \E u \in 1..Len(placed) :
                       /\ placed[u].type = "wall"
                       /\ placed[u].wallId = placed[i].wallId
                       /\ placed[u].position = placed[i].position

\* C11 witness: a returned layout of a room with a corner in which one point
\* obstacle was rejected and a later one of the same kind on the same wall has
\* its anchor module.
C11_Witness ==
    /\ pc = "done"
    /\ state.shape = "L-SHAPED"
    /\ \E w \in 1..Len(state.walls) :
           LET obs == state.walls[w].obstacles IN
           /\ Len(obs) = 2
           /\ IsPoint(obs[1]) /\ obs[2].type = obs[1].type
           /\ ~Passes(state.walls[w], obs[1])
           /\ Passes(state.walls[w], obs[2])
           /\ Len(errors) = 1
           /\ AnchorsAt(state.walls[w].id, AnchorRef(obs[2].type), obs[2].position - 300) = 1

\* The returned modules with the corner flag.
CornerModules == { i \in 1..Len(placed) : placed[i].corner }

C13_CornerFootprintFree ==
    pc = "done" =>
        \A i \in 1..Len(placed) :
            ( /\ state.shape \in {"L-SHAPED", "U-SHAPED"}
              /\ placed[i].type = "base" /\ ~placed[i].corner
              /\ placed[i].wallId \in {"wall-A", "wall-B"} )
                => ~Overlap(placed[i].position, placed[i].position + placed[i].width, 0, 930)

\* How many returned upper modules stand at this position of this wall.
UppersAt(wallId, pos) ==
    Cardinality({ k \in 1..Len(placed) :
                    /\ placed[k].type = "wall"
                    /\ placed[k].wallId = wallId /\ placed[k].position = pos })

\* How many returned base modules clear of every window stand at this position
\* of this wall.
ClearBasesAt(wallId, pos) ==
    Cardinality({ k \in 1..Len(placed) :
                    /\ placed[k].type = "base"
                    /\ placed[k].wallId = wallId /\ placed[k].position = pos
                    /\ ~UnderWindow(placed[k]) })

\* C14: a base module of a wall whose interval strictly overlaps a window of
\* that wall gets no upper module; every other base module of a wall gets
\* exactly one, at its own position on its own wall.  Stated by counting: at
\* each position of each wall there are as many upper modules as base modules
\* clear of the windows.
C14_UpperUnlessUnderWindow ==
    pc = "done" =>
        \A i \in 1..Len(placed) :
            (placed[i].type = "base" /\ placed[i].wallId \in WallIds) =>
                /\ UppersAt(placed[i].wallId, placed[i].position)
                       = ClearBasesAt(placed[i].wallId, placed[i].position)
                /\ UnderWindow(placed[i]) =>
                       UppersAt(placed[i].wallId, placed[i].position) = 0

\* C14 witness: a returned layout with a base module that starts exactly where
\* a window ends and has its upper module, and another base module under that
\* window without one.
C14_Witness ==
    /\ pc = "done"
    /\ \E b, c \in 1..Len(placed) :
           /\ placed[b].type = "base" /\ placed[c].type = "base"
           /\ placed[b].wallId \in WallIds
           /\ placed[c].wallId = placed[b].wallId
           /\ LET obs == WallById(placed[b].wallId).obstacles IN
              \E k \in 1..Len(obs) :
                  /\ obs[k].type = "window"
                  /\ placed[b].position = obs[k].position + obs[k].width \div 2
           /\ UppersAt(placed[b].wallId, placed[b].position) = 1
           /\ UnderWindow(placed[c])
           /\ UppersAt(placed[c].wallId, placed[c].position) = 0

FixedIntervals(wall) ==
    DoorColumnIntervals(wall) \cup CornerFootprint(wall)
    \cup { [start |-> placed[k].position, end |-> placed[k].position + placed[k].width] :
             k \in { j \in 1..Len(placed) :
                       IsAnchor(placed[j]) /\ placed[j].wallId = wall.id } }

MinOf(S) == CHOOSE x \in S : \A y \in S : x <= y

MaxOf(S) == CHOOSE x \in S : \A y \in S : x >= y

\* The start of the free segment that holds the free point p.
SegStart(wall, p) ==
    MaxOf({0} \cup { z.end : z \in { y \in FixedIntervals(wall) : y.end <= p } })

\* The end of the free segment that holds the free point p: where the next
\* occupied zone starts, the wall's length when nothing lies ahead.
SegEnd(wall, p) ==
    LET ahead == { z \in FixedIntervals(wall) : z.end > p } IN
    IF ahead = {} THEN wall.length ELSE MinOf({ z.start : z \in ahead })

\* The widths the greedy fill chooses from.
GreedyWidths ==
    { CATALOG[i].width :
        i \in { j \in 1..Len(CATALOG) :
                  /\ CATALOG[j].type = "base"
                  /\ CATALOG[j].anchor = "none" /\ ~CATALOG[j].corner } }

GreedyAt(wall, p) ==
    \E k \in 1..Len(placed) :
        IsGreedy(placed[k]) /\ placed[k].wallId = wall.id /\ placed[k].position = p

\* C16: in each free segment the greedy-filled modules stand one after the
\* other from the segment's start, each is the widest non-anchor, non-corner
\* base catalog module that fits the space left up to the segment's end, and
\* where the row stops less than 150 is left.
C16_GreedyWidestContiguous ==
    pc = "done" =>
        \A w \in 1..Len(state.walls) :
            LET wall == state.walls[w] IN
            /\ \A k \in 1..Len(placed) :
                   (IsGreedy(placed[k]) /\ placed[k].wallId = wall.id) =>
                       LET p == placed[k].position
                           rem == SegEnd(wall, p) - p
                       IN  /\ \/ p = SegStart(wall, p)
                              \/ \E h \in 1..Len(placed) :
                                     /\ IsGreedy(placed[h]) /\ placed[h].wallId = wall.id
                                     /\ placed[h].position + placed[h].width = p
                                     /\ placed[h].position >= SegStart(wall, p)
                           /\ placed[k].width \in GreedyWidths
                           /\ placed[k].width <= rem
                           /\ \A g \in GreedyWidths : g <= rem => g <= placed[k].width
            /\ \A x \in {0} \cup { z.end : z \in FloorIntervals(wall) } :
                   (x >= 0 /\ ~GreedyAt(wall, x)) => SegEnd(wall, x) - x < 150

\* C16 witness: the layout of a LINEAR room with a 3000 wall and no obstacle:
\* B120 at 0, B120 at 1200, B60 at 2400 and nothing else on the floor.
C16_Witness ==
    /\ pc = "done"
    /\ state.shape = "LINEAR"
    /\ state.walls[1].length = 3000
    /\ state.walls[1].obstacles = <<>>
    /\ { <<placed[k].ref, placed[k].position>> :
           k \in { j \in 1..Len(placed) : placed[j].type = "base" } }
         = { <<"B120", 0>>, <<"B120", 1200>>, <<"B60", 2400>> }
    /\ Cardinality({ j \in 1..Len(placed) : placed[j].type = "base" }) = 3

\* How many obstacles of this type stand at this position of the wall.
PointsAt(wall, type, pos) ==
    Cardinality({ k \in 1..Len(wall.obstacles) :
                    wall.obstacles[k].type = type /\ wall.obstacles[k].position = pos })

\* The diagnostics a point obstacle of this type can cause.
DiagnosticKinds(type) ==
    IF type = "water_point" THEN {"water_blocked", "sink_no_fit"}
    ELSE {"smoke_blocked", "oven_no_fit"}

\* How many diagnostics name this wall and position for this type of point.
DiagnosticsAt(wallId, type, pos) ==
    Cardinality({ e \in 1..Len(errors) :
                    /\ errors[e].kind \in DiagnosticKinds(type)
                    /\ errors[e].wallId = wallId /\ errors[e].position = pos })

\* The point obstacles of the room, as (wall, index) pairs, that pass or fail.
PointsWhere(passing) ==
    { <<w, k>> \in (1..Len(state.walls)) \X (1..MaxObs) :
        /\ k <= Len(state.walls[w].obstacles)
        /\ IsPoint(state.walls[w].obstacles[k])
        /\ Passes(state.walls[w], state.walls[w].obstacles[k]) = passing }

\* C17: each water point (smoke outlet) at p on a wall of length L has exactly
\* one of two outcomes.  If [p - 300, p + 300) overlaps no door or column zone
\* and lies within [0, L], one SINK60 (OVEN60) with the anchor flag stands at
\* p - 300 for it and no diagnostic names it; otherwise no module stands for
\* it and one diagnostic names its wall and p.  There is no other diagnostic
\* and no other anchor module.
C17_AnchorOrDiagnostic ==
    pc = "done" =>
        /\ \A w \in 1..Len(state.walls) :
               LET wall == state.walls[w] IN
               \A k \in 1..Len(wall.obstacles) :
                   LET o == wall.obstacles[k]
                       n == PointsAt(wall, o.type, o.position)
                   IN  IsPoint(o) =>
                           IF Passes(wall, o)
                           THEN /\ AnchorsAt(wall.id, AnchorRef(o.type), o.position - 300) = n
                                /\ DiagnosticsAt(wall.id, o.type, o.position) = 0
                           ELSE /\ AnchorsAt(wall.id, AnchorRef(o.type), o.position - 300) = 0
                                /\ DiagnosticsAt(wall.id, o.type, o.position) = n
        /\ Len(errors) = Cardinality(PointsWhere(FALSE))
        /\ Cardinality({ i \in 1..Len(placed) : IsAnchor(placed[i]) })
               = Cardinality(PointsWhere(TRUE))
        /\ \A i \in 1..Len(placed) :
               IsAnchor(placed[i]) =>
                   /\ placed[i].ref = AnchorRef(placed[i].anchor)
                   /\ placed[i].width = 600

\* C17 witness: a returned layout for a room in which one point obstacle lies
\* clear of doors and columns with p - 300 >= 0 but p + 300 beyond its wall
\* and is named by the one diagnostic, and another point obstacle has its
\* anchor module.
C17_Witness ==
    /\ pc = "done"
    /\ Len(errors) = 1
    /\ \E w \in 1..Len(state.walls) :
           \E k \in 1..Len(state.walls[w].obstacles) :
               LET o == state.walls[w].obstacles[k] IN
               /\ IsPoint(o)
               /\ ~BlockingHit(state.walls[w], o.position - 300, o.position + 300)
               /\ o.position - 300 >= 0
               /\ o.position + 300 > state.walls[w].length
               /\ errors[1].wallId = state.walls[w].id
               /\ errors[1].position = o.position
    /\ \E i \in 1..Len(placed) : IsAnchor(placed[i])

\* The room without its windows.
WithoutWindows(st) ==
    [st EXCEPT !.walls =
        [w \in 1..Len(st.walls) |->
            [st.walls[w] EXCEPT !.obstacles =
                SelectSeq2(@, { o \in SeqToSet(@) : o.type # "window" })]]]

BaseModules(pl) == SelectSeq2(pl, { m \in SeqToSet(pl) : m.type = "base" })

\* How many zones of the sequence zs are the zone z.
ZoneCount(zs, z) == Cardinality({ i \in 1..Len(zs) : zs[i] = z })

\* C18: for the obstacles of every wall buildBlockedZones returns one zone
\* [position - width/2, position + width/2) for each door and column and
\* nothing else, so the base modules of the returned layout are those of the
\* same room without its windows.
C18_OnlyDoorsAndColumnsBlock ==
    /\ \A w \in 1..Len(state.walls) :
           LET obs == state.walls[w].obstacles
               zs == buildBlockedZones(obs)
               blocking == { k \in 1..Len(obs) : obs[k].type \in {"door", "column"} }
           IN  /\ Len(zs) = Cardinality(blocking)
               /\ \A k \in blocking :
                      LET z == [start |-> obs[k].position - obs[k].width \div 2,
                                end |-> obs[k].position + obs[k].width \div 2]
                      IN  ZoneCount(zs, z)
                              = Cardinality({ j \in blocking :
                                                /\ obs[j].position = obs[k].position
                                                /\ obs[j].width = obs[k].width })
    /\ pc = "done" =>
           BaseModules(placed) = BaseModules(generateLayout(WithoutWindows(state)).placed_modules)

\* C18 witness: the layout of a LINEAR room whose 3000 wall carries a door of
\* width 800 at 1500 and a window: the floor is filled over [0, 1100) and
\* over [1900, 3000), each from its own start.
C18_Witness ==
    /\ pc = "done"
    /\ state.shape = "LINEAR"
    /\ state.walls[1].length = 3000
    /\ \E d, v \in 1..Len(state.walls[1].obstacles) :
           /\ state.walls[1].obstacles[d].type = "door"
           /\ state.walls[1].obstacles[d].position = 1500
           /\ state.walls[1].obstacles[d].width = 800
           /\ state.walls[1].obstacles[v].type = "window"
    /\ { <<placed[k].position, placed[k].width>> :
           k \in { j \in 1..Len(placed) : placed[j].type = "base" } }
         = { <<0, 900>>, <<900, 150>>, <<1900, 900>>, <<2800, 150>> }

\* The diagnostic a conflict with a door or column causes for a point obstacle.
BlockedKind(type) == IF type = "water_point" THEN "water_blocked" ELSE "smoke_blocked"

\* How many "obstructed" diagnostics name this wall and position for this type.
BlockedDiagnosticsAt(wallId, type, pos) ==
    Cardinality({ e \in 1..Len(errors) :
                    /\ errors[e].kind = BlockedKind(type)
                    /\ errors[e].wallId = wallId /\ errors[e].position = pos })

\* The anchor interval of the point obstacle o touches a door or column zone
\* of the wall: one ends where the other starts.
TouchesBlocking(wall, o) ==
    \E z \in DoorColumnIntervals(wall) :
        z.start = o.position + 300 \/ z.end = o.position - 300

\* C19: an anchor interval [start, end) is in conflict exactly when some door
\* or column zone z of its wall has start < z.end and end > z.start: the
\* "obstructed" diagnostic is raised for a point obstacle then and only then,
\* and an interval that only touches a zone, and lies within the wall, gets its
\* anchor module.
C19_ConflictIsStrictOverlap ==
    pc = "done" =>
        \A w \in 1..Len(state.walls) :
            LET wall == state.walls[w] IN
            \A k \in 1..Len(wall.obstacles) :
                LET o == wall.obstacles[k]
                    hit == \E z \in DoorColumnIntervals(wall) :
                               o.position - 300 < z.end /\ o.position + 300 > z.start
                IN  IsPoint(o) =>
                        /\ BlockedDiagnosticsAt(wall.id, o.type, o.position)
                               = (IF hit THEN PointsAt(wall, o.type, o.position) ELSE 0)
                        /\ ( /\ ~hit
                             /\ 0 <= o.position - 300
                             /\ o.position + 300 <= wall.length ) =>
                               AnchorsAt(wall.id, AnchorRef(o.type), o.position - 300) >= 1

\* C19 witness: a returned layout with an anchor module whose interval ends
\* exactly where a door or column zone of its wall starts, and no diagnostic.
C19_Witness ==
    /\ pc = "done"
    /\ errors = <<>>
    /\ \E w \in 1..Len(state.walls) :
           \E k \in 1..Len(state.walls[w].obstacles) :
               LET o == state.walls[w].obstacles[k] IN
               /\ IsPoint(o)
               /\ TouchesBlocking(state.walls[w], o)
               /\ AnchorsAt(state.walls[w].id, AnchorRef(o.type), o.position - 300) = 1

\* The widths of the upper catalog modules.
WallWidths ==
    { CATALOG[i].width : i \in { j \in 1..Len(CATALOG) : CATALOG[j].type = "wall" } }

\* The width of the upper module for a base module of width w: w itself when
\* an upper catalog module has it, else the largest upper width below w.
MirrorWidth(w) ==
    IF w \in WallWidths THEN w ELSE MaxOf({ x \in WallWidths : x <= w })

\* C20: every returned upper module has the wallId and position of a base
\* module of that wall and the width MirrorWidth gives for that base module,
\* which is never more than the base module's width.  No base module that
\* reaches the mirror step has a width outside the upper catalog, so the
\* "otherwise" case is also checked on the mirror step's body applied to each
\* returned base module, the 930 wide corner module included.
C20_UpperMatchesBase ==
    pc = "done" =>
        /\ \A u \in 1..Len(placed) :
               placed[u].type = "wall" =>
                   \E b \in 1..Len(placed) :
                       /\ placed[b].type = "base"
                       /\ placed[b].wallId = placed[u].wallId
                       /\ placed[b].position = placed[u].position
                       /\ placed[u].width = MirrorWidth(placed[b].width)
                       /\ placed[u].width <= placed[b].width
        /\ \A b \in 1..Len(placed) :
               placed[b].type = "base" =>
                   LET up == MirrorOne(<<>>, "wall-A", placed[b], <<>>) IN
                   /\ Len(up) = 1
                   /\ up[1].type = "wall"
                   /\ up[1].position = placed[b].position
                   /\ up[1].width = MirrorWidth(placed[b].width)
                   /\ up[1].width <= placed[b].width

\* C20 witness: a returned layout with the corner module, whose width no upper
\* catalog module has, and upper modules of two different widths.
C20_Witness ==
    /\ pc = "done"
    /\ \E c \in 1..Len(placed) : placed[c].corner /\ placed[c].width \notin WallWidths
    /\ \E u, v \in 1..Len(placed) :
           /\ placed[u].type = "wall" /\ placed[v].type = "wall"
           /\ placed[u].width # placed[v].width

\* C21: every returned anchor module that overlaps no window of its wall has
\* an upper module at its own position on its own wall, and so has the corner
\* module: in a room without windows an upper module stands at position 0 on
\* corner-AB, wall-A or wall-B.
C21_AnchorsAndCornerMirrored ==
    pc = "done" =>
        \A i \in 1..Len(placed) :
            /\ (IsAnchor(placed[i]) /\ ~UnderWindow(placed[i])) =>
                   UppersAt(placed[i].wallId, placed[i].position) >= 1
            /\ ( /\ placed[i].corner
                 /\ \A w \in 1..Len(state.walls) :
                        \A k \in 1..Len(state.walls[w].obstacles) :
                            state.walls[w].obstacles[k].type # "window" ) =>
                   \E u \in 1..Len(placed) :
                       /\ placed[u].type = "wall"
                       /\ placed[u].position = placed[i].position
                       /\ placed[u].wallId \in {"corner-AB", "wall-A", "wall-B"}

\* The place of a module in the order of the solver's passes.
Rank(m) ==
    IF IsAnchor(m) THEN 1 ELSE IF m.corner THEN 2 ELSE IF IsGreedy(m) THEN 3 ELSE 4

\* The place of a wall in state.walls.
WallIndex(wallId) == CHOOSE w \in 1..Len(state.walls) : state.walls[w].id = wallId

\* The positions of the returned anchor modules of a wall with this ref, in
\* the order in which they were returned.
AnchorPositions(wallId, ref) ==
    LET ms == SelectSeq2(placed, { m \in SeqToSet(placed) :
                                     IsAnchor(m) /\ m.wallId = wallId /\ m.ref = ref })
    IN  [i \in 1..Len(ms) |-> ms[i].position]

\* The positions the passing point obstacles of this type give their anchors,
\* in obstacle order.
PassingPositions(wall, type) ==
    LET os == SelectSeq2(wall.obstacles,
                         { o \in SeqToSet(wall.obstacles) : o.type = type /\ Passes(wall, o) })
    IN  [i \in 1..Len(os) |-> os[i].position - 300]

\* C25: in placed_modules the anchor modules come first, by wall in
\* declaration order and within a wall the sinks in obstacle order and then
\* the ovens in obstacle order; then the corner module; then the greedy-filled
\* modules, by wall and from left to right within a wall; then the upper
\* modules.  The diagnostics are ordered by wall, and within a wall those of
\* water points come before those of smoke outlets.
C25_OutputOrder ==
    pc = "done" =>
        /\ \A i, j \in 1..Len(placed) :
               i < j =>
                   /\ Rank(placed[i]) <= Rank(placed[j])
                   /\ (IsAnchor(placed[i]) /\ IsAnchor(placed[j])) =>
                          /\ WallIndex(placed[i].wallId) <= WallIndex(placed[j].wallId)
                          /\ placed[i].wallId = placed[j].wallId =>
                                 ~(placed[i].ref = "OVEN60" /\ placed[j].ref = "SINK60")
                   /\ (IsGreedy(placed[i]) /\ IsGreedy(placed[j])) =>
                          /\ WallIndex(placed[i].wallId) <= WallIndex(placed[j].wallId)
                          /\ placed[i].wallId = placed[j].wallId =>
                                 placed[i].position < placed[j].position
        /\ \A w \in 1..Len(state.walls) :
               /\ AnchorPositions(state.walls[w].id, "SINK60")
                      = PassingPositions(state.walls[w], "water_point")
               /\ AnchorPositions(state.walls[w].id, "OVEN60")
                      = PassingPositions(state.walls[w], "smoke_outlet")
        /\ \A i, j \in 1..Len(errors) :
               i < j =>
                   /\ WallIndex(errors[i].wallId) <= WallIndex(errors[j].wallId)
                   /\ errors[i].wallId = errors[j].wallId =>
                          ~( /\ errors[i].kind \in DiagnosticKinds("smoke_outlet")
                             /\ errors[j].kind \in DiagnosticKinds("water_point") )

\* C25 witness: the layout of a room with a corner whose first wall lists a
\* smoke outlet before a water point, both accepted: the sink comes first,
\* then the oven, the corner module, greedy-filled modules and upper modules.
C25_Witness ==
    /\ pc = "done"
    /\ Len(state.walls) >= 2
    /\ Len(state.walls[1].obstacles) = 2
    /\ state.walls[1].obstacles[1].type = "smoke_outlet"
    /\ state.walls[1].obstacles[2].type = "water_point"
    /\ Len(placed) >= 5
    /\ placed[1].ref = "SINK60"
    /\ placed[2].ref = "OVEN60"
    /\ placed[3].corner
    /\ IsGreedy(placed[4])
    /\ placed[Len(placed)].type = "wall"

(***************************************************************************)
(* Properties of the budget lines                                          *)
(***************************************************************************)

RECURSIVE SeqSum(_)
SeqSum(ns) == IF ns = <<>> THEN 0 ELSE Head(ns) + SeqSum(Tail(ns))

\* The place of the first module of the list with this ref.
FirstAt(mods, ref) == MinOf({ i \in 1..Len(mods) : mods[i].ref = ref })

\* C22: for a non-empty list the module lines are one per distinct ref of the
\* list, in the order in which the refs first appear, each with the number of
\* modules of its ref as qty; the quantities add up to moduleCount, which is
\* the list's length, and modulesTotal is the sum of the modules' prices.
C22_OneLinePerRef ==
    (pc = "priced" /\ ~IsEmptyList(placedModules)) =>
        LET mods == placedModules.modules
            lines == budget.moduleLines
        IN  /\ { lines[i].ref : i \in 1..Len(lines) } = { mods[k].ref : k \in 1..Len(mods) }
            /\ \A i, j \in 1..Len(lines) :
                   i < j => FirstAt(mods, lines[i].ref) < FirstAt(mods, lines[j].ref)
            /\ \A i \in 1..Len(lines) :
                   /\ lines[i].qty
                          = Cardinality({ k \in 1..Len(mods) : mods[k].ref = lines[i].ref })
                   /\ lines[i].total = lines[i].qty * lines[i].unitPrice
            /\ SeqSum([i \in 1..Len(lines) |-> lines[i].qty]) = budget.moduleCount
            /\ budget.moduleCount = Len(mods)
            /\ budget.modulesTotal = SeqSum([k \in 1..Len(mods) |-> Money(mods[k].price)])

\* C22 witness: a priced list in which a ref comes back after another ref:
\* two lines, the first with qty 2.
C22_Witness ==
    /\ pc = "priced"
    /\ Len(placedModules.modules) = 3
    /\ placedModules.modules[1].ref = placedModules.modules[3].ref
    /\ placedModules.modules[1].ref # placedModules.modules[2].ref
    /\ Len(budget.moduleLines) = 2
    /\ budget.moduleLines[1].qty = 2

\* C23: for a non-empty list of n modules of any kind the hardware lines are
\* the three lines HANDLE, LEGS, HINGES with qty n, unit prices 5, 4, 3 and
\* total qty * unit price, and hardwareTotal is their sum, 12 * n.
C23_HardwarePerModule ==
    (pc = "priced" /\ ~IsEmptyList(placedModules)) =>
        LET n == Len(placedModules.modules)
            lines == budget.hardwareLines
        IN  /\ [i \in 1..Len(lines) |-> <<lines[i].ref, lines[i].unitPrice>>]
                   = << <<"HANDLE", Money(5)>>, <<"LEGS", Money(4)>>, <<"HINGES", Money(3)>> >>
            /\ \A i \in 1..Len(lines) :
                   /\ lines[i].qty = n
                   /\ lines[i].total = lines[i].qty * lines[i].unitPrice
            /\ budget.hardwareTotal = SeqSum([i \in 1..Len(lines) |-> lines[i].total])
            /\ budget.hardwareTotal = Money(12) * n

\* C23 witness: a priced list of three modules with an upper module, an anchor
\* and the corner module among them.
C23_Witness ==
    /\ pc = "priced"
    /\ Len(placedModules.modules) = 3
    /\ \E a, c, u \in 1..3 :
           /\ placedModules.modules[a].anchor # "none"
           /\ placedModules.modules[c].corner
           /\ placedModules.modules[u].type = "wall"
    /\ budget.hardwareLines[1].qty = 3

\* C24: baseLinealM, in millimetres, is the sum of the widths of the modules
\* of type base of the list and of no other; the countertop line is that
\* length times 85 and the plinth line that length times 15, each rounded to 2
\* decimals on its own, and linealTotal is the sum of the two.
C24_LinealFromBaseWidths ==
    (pc = "priced" /\ ~IsEmptyList(placedModules)) =>
        LET mods == placedModules.modules
            mm == SeqSum([k \in 1..Len(mods) |->
                             IF mods[k].type = "base" THEN mods[k].width ELSE 0])
        IN  /\ budget.baseLinealM = mm
            /\ Len(budget.linealLines) = 2
            /\ budget.linealLines[1].ref = "COUNTERTOP"
            /\ budget.linealLines[2].ref = "PLINTH"
            /\ IsRounded2(budget.linealLines[1].total, mm * 85)
            /\ IsRounded2(budget.linealLines[2].total, mm * 15)
            /\ budget.linealTotal
                   = budget.linealLines[1].total + budget.linealLines[2].total

\* C24 witness: a priced list with the corner module, another base module and
\* an upper module, whose base length makes both costs need rounding.
C24_Witness ==
    /\ pc = "priced"
    /\ \E c, b, u \in 1..Len(placedModules.modules) :
           /\ placedModules.modules[c].corner
           /\ placedModules.modules[b].type = "base" /\ b # c
           /\ placedModules.modules[u].type = "wall"
    /\ (budget.baseLinealM * 85) % 10 # 0
    /\ (budget.baseLinealM * 15) % 10 # 0

(***************************************************************************)
(* Properties of the state container                                       *)
(***************************************************************************)

\* The ids of roomState.walls, in order.
WallIdsOf(rs) == [k \in 1..Len(rs.walls) |-> rs.walls[k].id]

\* C26: in every state of the container reached through setShape,
\* setWallLength and the obstacle and selection operations, roomState.walls is
\* [wall-A] for LINEAR, [wall-A, wall-B] for L-SHAPED and
\* [wall-A, wall-B, wall-C] for U-SHAPED.
C26_WallsMatchShape ==
    pc = "store" =>
        /\ roomState.shape \in Shapes
        /\ roomState.shape = "LINEAR" => WallIdsOf(roomState) = <<"wall-A">>
        /\ roomState.shape = "L-SHAPED"
               => WallIdsOf(roomState) = <<"wall-A", "wall-B">>
        /\ roomState.shape = "U-SHAPED"
               => WallIdsOf(roomState) = <<"wall-A", "wall-B", "wall-C">>

\* C26 witness: a U-SHAPED room whose first wall was shortened, whose third
\* wall holds an obstacle and whose second wall is selected.
C26_Witness ==
    /\ pc = "store"
    /\ roomState.shape = "U-SHAPED"
    /\ roomState.walls[1].length = 1000
    /\ Len(roomState.walls[3].obstacles) = 1
    /\ uiState.selectedWallId = "wall-B"

\* C27: every obstacle's centre p on a wall of length L has 0 <= p <= L.
C27_ObstaclesWithinWall ==
    pc = "store" =>
        \A w \in 1..Len(roomState.walls) :
            \A k \in 1..Len(roomState.walls[w].obstacles) :
                /\ roomState.walls[w].obstacles[k].position >= 0
                /\ roomState.walls[w].obstacles[k].position
                       <= roomState.walls[w].length

\* budget is calculateBudget(placed_modules), or both are as they are before
\* any generation.
BudgetMatches(rs) ==
    \/ rs.placed_modules = <<>> /\ rs.budget = <<>>
    \/ /\ rs.budget # <<>>
       /\ rs.budget[1]
              \in calculateBudget([given |-> TRUE, modules |-> rs.placed_modules])

\* C28: every snapshot delivered to the subscribers has the budget of its
\* placed_modules, and the snapshots delivered while handleGenerate stores a
\* run have the placed_modules and the solverErrors of that run.
C28_SnapshotsConsistent ==
    pc = "store" =>
        \A k \in 1..Len(delivered) :
            /\ BudgetMatches(delivered[k].state)
            /\ Len(delivered) > 1 =>
                   /\ delivered[k].state.placed_modules
                          = generateLayout(delivered[k].state).placed_modules
                   /\ delivered[k].state.solverErrors
                          = generateLayout(delivered[k].state).errors

\* placed_modules, budget and solverErrors of the container.
StoredLayout ==
    <<roomState.placed_modules, roomState.budget, roomState.solverErrors>>

\* C29: setWallLength, setCeilingHeight, selectWall, addObstacleToWall,
\* updateObstacle, removeObstacle, selectObstacle, setActiveTool and
\* clearSelection leave placed_modules, budget and solverErrors as they are;
\* the three change only when handleGenerate stores a run, through
\* clearModules and through setShape.
C29_EditsKeepLayout ==
    [][ StoredLayout' # StoredLayout =>
            /\ ~( \/ EditWallLength \/ EditCeilingHeight \/ ClickWall
                  \/ AddObstacleToWall \/ EditObstaclePosition \/ DeleteObstacle
                  \/ ClickObstacle \/ ClickTool \/ ClickNothing )
            /\ (ClickShape \/ ClearModules \/ FinishGenerate) ]_vars

\* C29 witness: a layout was stored for the 3000 mm wall, with a module
\* ending past 1000 mm, and the wall was then shortened to 1000 mm.
C29_Witness ==
    /\ pc = "store"
    /\ Len(delivered) = 1
    /\ roomState.walls[1].length = 1000
    /\ roomState.budget # <<>>
    /\ \E k \in 1..Len(roomState.placed_modules) :
           /\ roomState.placed_modules[k].wallId = "wall-A"
           /\ roomState.placed_modules[k].position
                  + roomState.placed_modules[k].width > 1000

\* C30: solverRunning is true from handleGenerate's setSolverRunning(true) to
\* its setSolverRunning(false), whatever the user does during the delay, and
\* false when no call is pending.
C30_SolverRunningWhilePending ==
    pc = "store" =>
        /\ gen = "waiting" => uiState.solverRunning
        /\ gen = "idle" => ~uiState.solverRunning

====
